---- MODULE Spec2Model ----
(***************************************************************************)
(* ASTEnv (src/envs/ast_env.py): the gym environment that marshals the     *)
(* native AST engine's fixed-capacity State record into padded             *)
(* observations (get_state / pad_states), strips the padding again         *)
(* (unpad_states) and drives the engine through reset / step / close;      *)
(* GNNPolicy.unflatten_input (src/agent/policy.py), which decodes batches   *)
(* of flattened observations.                                              *)
(*                                                                         *)
(* Python arrays are modelled as sequences: Python index j is position     *)
(* j + 1.  The numpy arrays of an observation are views of the ctypes      *)
(* State record (np.ctypeslib.as_array shares memory), so writing an       *)
(* observation array writes the State record and the reverse.              *)
(***************************************************************************)
EXTENDS Integers, Sequences, FiniteSets, TLC

VARIABLES cfg, astclib, state, raw, ret, held, last, decoded, policy

vars == <<cfg, astclib, state, raw, ret, held, last, decoded, policy>>

\* ---- bounds of the model ------------------------------------------------
\* max_num_vars of every schema; max_num_nodes is MaxCap or one less
MaxCap == 2
\* num_actions of every schema
NumActions == 2
\* how far an engine counter may run past its capacity
Over == 1
\* node payloads written by the engine are drawn from tags 0..MaxTag
MaxTag == 1
\* num_assignments; the last assignment has two code variants, the others one
NumAssignments == 1

\* rows in one batch handed to unflatten_input
MaxBatch == 2
\* calls of unflatten_input on one policy
MaxCalls == 2

\* the reserved padding value
SENTINEL == -1

\* Python's None; optional values are records so that they compare with records
None == [none |-> TRUE]

Min(a, b) == IF a < b THEN a ELSE b
Max(a, b) == IF a > b THEN a ELSE b

\* ---- capacity schema: the constructor's arguments -------------------------
Schemas ==
    [max_num_nodes : {MaxCap - 1, MaxCap}, max_num_vars : {MaxCap},
     num_actions : {NumActions}, num_assignments : {NumAssignments},
     code_per_assignment :
        {[a \in 1..NumAssignments |-> IF a = NumAssignments THEN 2 ELSE 1]}]

\* State._fields_: the lengths of the ctypes arrays
NodesCap(c) == c.max_num_nodes
EdgesCap(c) == c.max_num_nodes * 3
VarsCap(c) == c.max_num_vars
\* the mask sized as the action space is, one slot per variable
PermittedLen_short(c) == c.num_actions + c.max_num_vars
\* permitted_actions: c_int * (num_actions + max_num_vars * 2)
PermittedLen(c) == c.num_actions + c.max_num_vars * 2

\* the validation the design asks of a schema
ValidSchema(c) ==
    /\ c.max_num_nodes > 0 /\ c.max_num_vars > 0 /\ c.num_actions > 0
    /\ c.max_num_vars <= c.max_num_nodes

\* ---- the native engine (astclib.so), known only by its contract ----------
Tags == 0..MaxTag

NodeVal(t, i) == IF t < 0 THEN SENTINEL ELSE t + (i % 2)
EdgeVal(t, i) == IF t < 0 THEN <<SENTINEL, 0, 0>> ELSE <<(i - 1) % 2, i % 2, t>>
VarVal(t, i) == IF t < 0 THEN SENTINEL ELSE (t + i) % 2
ArgVal(t, i) == IF t < 0 THEN <<SENTINEL, 0>> ELSE <<t, i % 2>>

\* what the positions past a counter may hold when the engine returns: the
\* zeros of a new record, or the sentinel an earlier encoding left there
Garbage == {0, SENTINEL}

\* the State record holding a tree of k nodes, e edges, v variables and a
\* arguments with payload t, loaded for (asg, code), unused positions g
EngineFill(c, k, e, v, a, t, g, asg, code) ==
    [nodes |-> [i \in 1..NodesCap(c) |-> IF i <= k THEN NodeVal(t, i) ELSE g],
     starter |-> [i \in 1..NodesCap(c) |->
                    IF i <= k THEN NodeVal(asg + code, i) ELSE g],
     edges |-> [i \in 1..EdgesCap(c) |->
                    IF i <= e THEN EdgeVal(t, i) ELSE <<g, g, g>>],
     vars_in_scope |-> [i \in 1..VarsCap(c) |->
                    IF i <= v THEN VarVal(t, i) ELSE g],
     args_in_scope |-> [i \in 1..VarsCap(c) |->
                    IF i <= a THEN ArgVal(t, i) ELSE <<g, g>>],
     permitted_actions |-> [i \in 1..PermittedLen(c) |-> (Max(t, 0) + i) % 2],
     zast |-> t, cursor |-> 0,
     num_nodes |-> k, num_edges |-> e, num_vars |-> v, num_args |-> a,
     assignment |-> asg, code |-> code]

\* the trees the engine builds: k nodes linked by parent edges only or by all
\* three kinds of edge, v variables with or without one argument each
Shapes(c) ==
    [k : 0..(NodesCap(c) + Over), dense : BOOLEAN,
     v : 0..(VarsCap(c) + Over), witharg : BOOLEAN, t : Tags]

EdgesOf(s) == IF s.dense THEN 3 * s.k ELSE Max(s.k - 1, 0)
ArgsOf(s) == IF s.witharg THEN s.v ELSE 0

ShapeOf(st) ==
    [k |-> st.num_nodes, dense |-> st.num_edges = 3 * st.num_nodes,
     v |-> st.num_vars, witharg |-> st.num_args = st.num_vars, t |-> st.zast]

\* the trees one edit away from tree r, and r itself
Edits(c, r) ==
    {x \in {[r EXCEPT !.k = r.k + d] : d \in {-1, 0, 1}}
           \cup {[r EXCEPT !.v = r.v + d] : d \in {-1, 1}}
           \cup {[r EXCEPT !.t = t] : t \in Tags}
           \cup {[r EXCEPT !.dense = ~r.dense], [r EXCEPT !.witharg = ~r.witharg]} :
        x \in Shapes(c)}

\* init_assignment(state, dir, assignment, code, perturbation) on a new,
\* zero-filled record: the starting tree of (assignment, code), perturbed in
\* size, the cursor at the root with no variable in scope; nodes = starter
load_assignment(c, asg, code) ==
    {EngineFill(c, s.k, EdgesOf(s), s.v, ArgsOf(s), s.t, 0, asg, code) :
        s \in {[k |-> k, dense |-> FALSE, v |-> 0, witharg |-> FALSE,
                t |-> (asg + code) % (MaxTag + 1)] : k \in 0..(NodesCap(c) + Over)}}

\* the edit that leads from tree r to tree x, numbered within its class: of
\* the tree (insert, delete, relink, replace, none) or of the scope
TreeEdit(x, r) ==
    IF x.k > r.k THEN 0 ELSE IF x.k < r.k THEN 1
    ELSE IF x.dense # r.dense THEN 2 ELSE IF x.t # r.t THEN 3 ELSE 4
ScopeEdit(x, r) == IF x.v > r.v THEN 0 ELSE IF x.v < r.v THEN 1 ELSE 2

\* actions below num_actions edit the tree, the others the variables in scope
Performs(c, action, x, r) ==
    IF action < c.num_actions
    THEN x.v = r.v /\ x.witharg = r.witharg
         /\ TreeEdit(x, r) % c.num_actions = action
    ELSE x.k = r.k /\ x.dense = r.dense /\ x.t = r.t /\ x # r
         /\ ScopeEdit(x, r) % c.max_num_vars = action - c.num_actions

\* take_action(state, action): at most one edit, in place
apply_action(c, st, action) ==
    {EngineFill(c, s.k, EdgesOf(s), s.v, ArgsOf(s), s.t, g,
                st.assignment, st.code) :
        s \in {x \in Edits(c, ShapeOf(st)) : Performs(c, action, x, ShapeOf(st))},
        g \in Garbage}

\* check_ast(state)
check(st) == {0, 1}

\* ---- the encoder: get_state / pad_states ---------------------------------
\* the dict get_state builds: array views of the State record, scalar copies
StateDict(st) ==
    [nodes |-> st.nodes, edges |-> st.edges, starter |-> st.starter,
     permitted_actions |-> st.permitted_actions, cursor_position |-> st.cursor,
     vars_in_scope |-> st.vars_in_scope, args_in_scope |-> st.args_in_scope,
     assignment |-> st.assignment]

\* pad_states with each loop starting off positions after its counter
PadFrom(c, st, d, off) ==
    [d EXCEPT
       !.nodes = [i \in DOMAIN @ |->
          IF i > st.num_nodes + off /\ i <= c.max_num_nodes THEN SENTINEL ELSE @[i]],
       !.starter = [i \in DOMAIN @ |->
          IF i > st.num_nodes + off /\ i <= c.max_num_nodes THEN SENTINEL ELSE @[i]],
       !.edges = [i \in DOMAIN @ |->
          IF i > st.num_edges + off /\ i <= c.max_num_nodes * 3
          THEN [@[i] EXCEPT ![1] = SENTINEL] ELSE @[i]],
       !.vars_in_scope = [i \in DOMAIN @ |->
          IF i > st.num_vars + off /\ i <= c.max_num_vars THEN SENTINEL ELSE @[i]],
       !.args_in_scope = [i \in DOMAIN @ |->
          IF i > st.num_args + off /\ i <= c.max_num_vars
          THEN [@[i] EXCEPT ![1] = SENTINEL] ELSE @[i]]]

\* pad_states with every loop starting one position late
PadStates_late(c, st, d) == PadFrom(c, st, d, 1)
\* pad_states written with -= 1 where it has = -1
PadStates_decr(c, st, d) ==
    [d EXCEPT
       !.nodes = [i \in DOMAIN @ |->
          IF i > st.num_nodes /\ i <= c.max_num_nodes THEN @[i] - 1 ELSE @[i]],
       !.starter = [i \in DOMAIN @ |->
          IF i > st.num_nodes /\ i <= c.max_num_nodes THEN @[i] - 1 ELSE @[i]],
       !.edges = [i \in DOMAIN @ |->
          IF i > st.num_edges /\ i <= c.max_num_nodes * 3
          THEN [@[i] EXCEPT ![1] = @ - 1] ELSE @[i]],
       !.vars_in_scope = [i \in DOMAIN @ |->
          IF i > st.num_vars /\ i <= c.max_num_vars THEN @[i] - 1 ELSE @[i]],
       !.args_in_scope = [i \in DOMAIN @ |->
          IF i > st.num_args /\ i <= c.max_num_vars
          THEN [@[i] EXCEPT ![1] = @ - 1] ELSE @[i]]]
\* pad_states with every loop starting one position early
PadStates_early(c, st, d) == PadFrom(c, st, d, 0 - 1)
\* pad_states: range(self.state.num_X, capacity)
PadStates(c, st, d) == PadFrom(c, st, d, 0)

\* the observation get_state returns for the State record st
GetState(c, st) == PadStates(c, st, StateDict(st))

\* the State record after get_state: the observation's arrays are views of
\* it, so what pad_states wrote is in the record
WriteThrough(st, obs) ==
    [st EXCEPT !.nodes = obs.nodes, !.starter = obs.starter, !.edges = obs.edges,
               !.vars_in_scope = obs.vars_in_scope,
               !.args_in_scope = obs.args_in_scope,
               !.permitted_actions = obs.permitted_actions]

\* ---- the decoder: unpad_states --------------------------------------------
\* the for/if/break loop over positions i..cap of a marker column: where the
\* first sentinel is, or that an index ran past the array (IndexError)
\* the loop stopping at the end of the array instead of indexing past it
RECURSIVE Scan_clamped(_, _, _)
Scan_clamped(marks, cap, i) ==
    IF i > cap \/ i > Len(marks)
    THEN [raised |-> FALSE, found |-> FALSE, keep |-> Len(marks)]
    ELSE IF marks[i] = SENTINEL THEN [raised |-> FALSE, found |-> TRUE, keep |-> i - 1]
    ELSE Scan_clamped(marks, cap, i + 1)

RECURSIVE Scan(_, _, _)
Scan(marks, cap, i) ==
    IF i > cap THEN [raised |-> FALSE, found |-> FALSE, keep |-> Len(marks)]
    ELSE IF i > Len(marks) THEN [raised |-> TRUE, found |-> FALSE, keep |-> Len(marks)]
    ELSE IF marks[i] = SENTINEL THEN [raised |-> FALSE, found |-> TRUE, keep |-> i - 1]
    ELSE Scan(marks, cap, i + 1)

FirstOf(seq) == [i \in DOMAIN seq |-> seq[i][1]]
Prefix(seq, n) == SubSeq(seq, 1, Min(n, Len(seq)))

\* unpad_states with the edges loop running over edge_cap positions; the dict
\* is updated in place, so a raise leaves the fields cut so far
UnpadWith(c, d, edge_cap) ==
    LET n == Scan(d.nodes, c.max_num_nodes, 1)
        d1 == IF n.found
              THEN [d EXCEPT !.nodes = Prefix(@, n.keep), !.starter = Prefix(@, n.keep)]
              ELSE d
        e == Scan(FirstOf(d1.edges), edge_cap, 1)
        d2 == IF e.found THEN [d1 EXCEPT !.edges = Prefix(@, e.keep)] ELSE d1
        v == Scan(d2.vars_in_scope, c.max_num_vars, 1)
        d3 == IF v.found THEN [d2 EXCEPT !.vars_in_scope = Prefix(@, v.keep)] ELSE d2
        a == Scan(FirstOf(d3.args_in_scope), c.max_num_vars, 1)
        d4 == IF a.found THEN [d3 EXCEPT !.args_in_scope = Prefix(@, a.keep)] ELSE d3
    IN  IF n.raised THEN [raised |-> TRUE, dict |-> d]
        ELSE IF e.raised THEN [raised |-> TRUE, dict |-> d1]
        ELSE IF v.raised THEN [raised |-> TRUE, dict |-> d2]
        ELSE IF a.raised THEN [raised |-> TRUE, dict |-> d3]
        ELSE [raised |-> FALSE, dict |-> d4]

\* unpad_states whose args_in_scope loop tests vars_in_scope[i]
UnpadStates_sharedscan(c, d) ==
    LET r == UnpadWith(c, d, c.max_num_nodes * 3)
        v == Scan(d.vars_in_scope, c.max_num_vars, 1)
    IN  [r EXCEPT !.dict.args_in_scope =
            IF v.found THEN Prefix(d.args_in_scope, v.keep) ELSE d.args_in_scope]
\* unpad_states with the edges loop stopping at max_num_nodes
UnpadStates_nodecap(c, d) == UnpadWith(c, d, c.max_num_nodes)
\* unpad_states: the edges loop is range(self.max_num_nodes * 3)
UnpadStates(c, d) == UnpadWith(c, d, c.max_num_nodes * 3)

\* ---- the environment ------------------------------------------------------
\* the life-cycle state of the design, read off the fields the code keeps
Phase ==
    IF state = None THEN "Unborn"
    ELSE IF ret # None /\ ret.kind = "step" /\ ret.done THEN "Terminal"
    ELSE "Ready"

ActionSpace(c) == 0..(c.num_actions + c.max_num_vars - 1)

\* the arrays of an observation, as read through the record they view
ObsArrays(st) ==
    [nodes |-> st.nodes, starter |-> st.starter, edges |-> st.edges,
     vars_in_scope |-> st.vars_in_scope, args_in_scope |-> st.args_in_scope,
     permitted_actions |-> st.permitted_actions]

\* done left at its initial False
DoneOf_never(reward) == FALSE
\* done = False; if reward == 1: done = True
DoneOf(reward) == reward = 1

Init ==
    /\ cfg = None
    /\ astclib = "unloaded"
    /\ state = None
    /\ raw = None
    /\ ret = None
    /\ held = None
    /\ last = [op |-> "none", before |-> "Unborn", raised |-> FALSE]
    /\ decoded = None
    /\ policy = None

\* ASTEnv.__init__: no argument is validated; the engine is loaded and seeded
Construct ==
    /\ astclib = "unloaded"
    /\ \E c \in Schemas : cfg' = c
    /\ astclib' = "ready"
    /\ state' = None
    /\ last' = [op |-> "init", before |-> "Unborn", raised |-> FALSE]
    /\ UNCHANGED <<raw, ret, held, decoded, policy>>

\* observation_space.spaces["assignment"].sample() of Discrete(num_assignments)
AssignmentIds(c) == 0..(c.num_assignments - 1)

\* random.randint(0, n), both ends included, called without the - 1
CodeIds_inclusive(c, asg) == 0..c.code_per_assignment[asg + 1]
\* random.randint(0, self.code_per_assignment[assignment] - 1), both ends
\* included; the list is indexed from 0 in the code, from 1 here
CodeIds(c, asg) == 0..(c.code_per_assignment[asg + 1] - 1)

\* an observation the caller keeps: a dict of views of the current State
\* record, returned during the current episode
Viewing == [ref |-> "state", past |-> FALSE]

\* reset loading into the State record it already has: the observation kept
\* from the episode before still views the record the engine writes
HeldAfterReset_reuse(h) == IF h = None THEN None ELSE [h EXCEPT !.past = TRUE]
\* self.state = State(): the environment drops the old record ("old"), which
\* stays alive under the arrays that view it; the environment and the engine
\* keep no reference to it
HeldAfterReset(h) ==
    IF h = None THEN None ELSE [ref |-> "old", past |-> TRUE]

\* the body of reset: sample, new State record, init_assignment, get_state
ResetLoad ==
    /\ \E asg \in AssignmentIds(cfg) :
       \E code \in CodeIds(cfg, asg) :
       \E st \in load_assignment(cfg, asg, code) :
          LET obs == GetState(cfg, st) IN
          /\ raw' = st
          /\ state' = WriteThrough(st, obs)
          /\ ret' = [kind |-> "reset", obs |-> obs, reward |-> 0, done |-> FALSE]
    /\ held' = HeldAfterReset(held)
    /\ last' = [op |-> "reset", before |-> Phase, raised |-> FALSE]

\* reset that refuses to abandon an episode: it raises unless the environment
\* is Unborn or Terminal
Reset_strict ==
    /\ astclib = "ready"
    /\ IF Phase = "Ready"
       THEN /\ last' = [op |-> "reset", before |-> Phase, raised |-> TRUE]
            /\ UNCHANGED <<state, raw, ret, held>>
       ELSE ResetLoad
    /\ UNCHANGED <<cfg, astclib, decoded, policy>>

\* ASTEnv.reset: a fresh State record, loaded by the engine, then encoded
Reset ==
    /\ astclib = "ready"
    /\ ResetLoad
    /\ UNCHANGED <<cfg, astclib, decoded, policy>>

\* the body of step on the State record st0: take_action, check_ast, get_state
StepOn(st0) ==
    /\ \E action \in ActionSpace(cfg) :
       \E st \in apply_action(cfg, st0, action) :
       \E reward \in check(st) :
          LET obs == GetState(cfg, st) IN
          /\ raw' = st
          /\ state' = WriteThrough(st, obs)
          /\ ret' = [kind |-> "step", obs |-> obs, reward |-> reward,
                     done |-> DoneOf(reward)]
    /\ last' = [op |-> "step", before |-> Phase, raised |-> FALSE]

\* step that makes itself an empty State record when there is none
Step_lazy ==
    /\ astclib = "ready"
    /\ StepOn(IF state = None
              THEN EngineFill(cfg, 0, 0, 0, 0, 0, 0, 0, 0) ELSE state)
    /\ UNCHANGED <<cfg, astclib, held, decoded, policy>>

\* ASTEnv.step: byref(None) raises before any engine call; otherwise the
\* action is applied whatever the last step returned
Step ==
    /\ astclib = "ready"
    /\ \/ /\ state = None
          /\ last' = [op |-> "step", before |-> Phase, raised |-> TRUE]
          /\ UNCHANGED <<state, raw, ret>>
       \/ /\ state # None
          /\ StepOn(state)
    /\ UNCHANGED <<cfg, astclib, held, decoded, policy>>

\* close passing byref(self.state) as render does: raises while state is None
Close_deref ==
    /\ astclib = "ready"
    /\ IF state = None
       THEN /\ last' = [op |-> "close", before |-> Phase, raised |-> TRUE]
            /\ UNCHANGED astclib
       ELSE /\ last' = [op |-> "close", before |-> Phase, raised |-> FALSE]
            /\ astclib' = "closed"
    /\ UNCHANGED <<cfg, state, raw, ret, held, decoded, policy>>

\* ASTEnv.close: close_c takes no state
Close ==
    /\ astclib = "ready"
    /\ astclib' = "closed"
    /\ last' = [op |-> "close", before |-> Phase, raised |-> FALSE]
    /\ UNCHANGED <<cfg, state, raw, ret, held, decoded, policy>>

\* the caller keeps the observation it was last returned: a dict of views of
\* the current State record ("state"); reset leaves it viewing the record the
\* environment has dropped ("old")
Hold ==
    /\ ret # None
    /\ held # Viewing
    /\ held' = Viewing
    /\ UNCHANGED <<cfg, astclib, state, raw, ret, last, decoded, policy>>

\* the calls of a driver; close is its last call (src/test.py), so no
\* operation is enabled once the engine is released
Next == Construct \/ Reset \/ Step \/ Close

Spec == Init /\ [][Next]_vars

NextAlias == Next \/ Hold

SpecAlias == Init /\ [][NextAlias]_vars

\* ---- the encoder and decoder on their own ---------------------------------
\* the State records handed to get_state: every combination of counters up to
\* Over past capacity, payloads that include the sentinel itself (tag -1)
RawStates(c) ==
    {EngineFill(c, k, e, v, a, t, g, 0, 0) :
        k \in 0..(NodesCap(c) + Over), e \in 0..(EdgesCap(c) + Over),
        v \in 0..(VarsCap(c) + Over), a \in 0..(VarsCap(c) + Over),
        t \in (Tags \cup {SENTINEL}), g \in Garbage}

InitCodec ==
    /\ cfg \in Schemas
    /\ astclib = "ready"
    /\ state \in RawStates(cfg)
    /\ raw = state
    /\ ret = None
    /\ held = None
    /\ last = [op |-> "none", before |-> "Ready", raised |-> FALSE]
    /\ decoded = None
    /\ policy = None

\* get_state on the record as the engine left it
Encode ==
    /\ ret = None
    /\ LET obs == GetState(cfg, state) IN
       /\ state' = WriteThrough(state, obs)
       /\ ret' = [kind |-> "get_state", obs |-> obs, reward |-> 0, done |-> FALSE]
    /\ last' = [op |-> "get_state", before |-> "Ready", raised |-> FALSE]
    /\ UNCHANGED <<cfg, astclib, raw, held, decoded, policy>>

\* get_state once more, with no engine call since the last one
Reencode ==
    /\ ret # None
    /\ ret.kind = "get_state"
    /\ decoded = None
    /\ LET obs == GetState(cfg, state) IN
       /\ state' = WriteThrough(state, obs)
       /\ ret' = [kind |-> "get_state_again", obs |-> obs, prev |-> ret.obs,
                  reward |-> 0, done |-> FALSE]
    /\ last' = [op |-> "get_state", before |-> "Ready", raised |-> FALSE]
    /\ UNCHANGED <<cfg, astclib, raw, held, decoded, policy>>

\* unpad_states on the observation get_state returned
Decode ==
    /\ ret # None
    /\ ret.kind = "get_state"
    /\ decoded = None
    /\ LET r == UnpadStates(cfg, ret.obs) IN
       /\ decoded' = [raised |-> r.raised, dict |-> r.dict, again |-> None]
       /\ last' = [op |-> "unpad_states", before |-> "Ready", raised |-> r.raised]
    /\ UNCHANGED <<cfg, astclib, state, raw, ret, held, policy>>

\* unpad_states a second time on the dict it has updated in place
DecodeAgain ==
    /\ decoded # None
    /\ decoded.again = None
    /\ LET r == UnpadStates(cfg, decoded.dict) IN
       /\ decoded' = [decoded EXCEPT !.again = r]
       /\ last' = [op |-> "unpad_states", before |-> "Ready", raised |-> r.raised]
    /\ UNCHANGED <<cfg, astclib, state, raw, ret, held, policy>>

NextCodec == Encode \/ Reencode \/ Decode \/ DecodeAgain

SpecCodec == InitCodec /\ [][NextCodec]_vars

\* ---- the policy: GNNPolicy.unflatten_input ---------------------------------
\* the keys of env.observation_space
ObsKeys ==
    {"nodes", "edges", "permitted_actions", "starter", "cursor_position",
     "vars_in_scope", "args_in_scope", "assignment"}

RECURSIVE Ravel(_)
\* a field of tuples laid out flat, row after row
Ravel(f) == IF f = <<>> THEN <<>> ELSE Head(f) \o Ravel(Tail(f))

\* a flat vector cut back into n tuples of w entries
Reshape(x, n, w) == [i \in 1..n |-> SubSeq(x, (i - 1) * w + 1, i * w)]

\* the row of a batch: the observation with every array laid out flat
Flatten(obs) ==
    [obs EXCEPT !.edges = Ravel(@), !.args_in_scope = Ravel(@)]

\* unflatten(self.env.observation_space, row): every array back in the shape
\* of its space
Unflatten(c, row) ==
    [row EXCEPT !.edges = Reshape(@, EdgesCap(c), 3),
                !.args_in_scope = Reshape(@, VarsCap(c), 2)]

\* the rows the batches are made of: encoded observations of starting trees
\* of every size up to capacity
Rows(c) ==
    {Flatten(GetState(c, EngineFill(c, k, Max(k - 1, 0), 0, 0, 0, 0, 0, 0))) :
        k \in 0..NodesCap(c)}

Batches(c) == UNION {[1..n -> Rows(c)] : n \in 1..MaxBatch}

RECURSIVE AppendRows(_, _, _, _)
\* the loop of unflatten_input from row i on: unflatten, unpad_states, then
\* append the value of every key to the list input_dict has for that key
AppendRows(c, input_dict, batch, i) ==
    IF i > Len(batch) THEN input_dict
    ELSE LET datum == UnpadStates(c, Unflatten(c, batch[i])).dict
         IN  AppendRows(c, [key \in ObsKeys |-> Append(input_dict[key], datum[key])],
                        batch, i + 1)

\* GNNPolicy.__init__: empty_obs_dict has an empty list for every key
NewPolicy ==
    /\ astclib = "ready"
    /\ policy = None
    /\ policy' = [empty_obs_dict |-> [key \in ObsKeys |-> <<>>],
                  input_dict |-> None, rows |-> 0, calls |-> 0]
    /\ last' = [op |-> "policy_init", before |-> Phase, raised |-> FALSE]
    /\ UNCHANGED <<cfg, astclib, state, raw, ret, held, decoded>>

\* GNNPolicy.unflatten_input: input_dict is self.empty_obs_dict itself, not a
\* copy, so what the loop appends stays in empty_obs_dict
UnflattenInput ==
    /\ policy # None
    /\ policy.calls < MaxCalls
    /\ \E batch \in Batches(cfg) :
          LET input_dict == AppendRows(cfg, policy.empty_obs_dict, batch, 1) IN
          policy' = [empty_obs_dict |-> input_dict, input_dict |-> input_dict,
                     rows |-> Len(batch), calls |-> policy.calls + 1]
    /\ last' = [op |-> "unflatten_input", before |-> Phase, raised |-> FALSE]
    /\ UNCHANGED <<cfg, astclib, state, raw, ret, held, decoded>>

NextPolicy == Construct \/ NewPolicy \/ UnflattenInput

SpecPolicy == Init /\ [][NextPolicy]_vars

\* ---- properties -------------------------------------------------------------
\* invariant I1 of a raw record, with live entries that are never the sentinel
WellFormed(c, st) ==
    /\ st.num_nodes \in 0..NodesCap(c)
    /\ st.num_edges \in 0..EdgesCap(c)
    /\ st.num_vars \in 0..VarsCap(c)
    /\ st.num_args \in 0..VarsCap(c)
    /\ \A i \in 1..st.num_nodes : st.nodes[i] # SENTINEL /\ st.starter[i] # SENTINEL
    /\ \A i \in 1..st.num_edges : \A j \in 1..3 : st.edges[i][j] # SENTINEL
    /\ \A i \in 1..st.num_vars : st.vars_in_scope[i] # SENTINEL
    /\ \A i \in 1..st.num_args : \A j \in 1..2 : st.args_in_scope[i][j] # SENTINEL

\* C1: round trip. For a raw record whose counters are within capacity and
\* whose live entries are never -1, unpad_states(pad_states(record)) does not
\* raise and its nodes, edges, vars_in_scope and args_in_scope are exactly the
\* first num_nodes, num_edges, num_vars and num_args entries of the raw fields.
C1_RoundTrip ==
    (decoded # None /\ WellFormed(cfg, raw)) =>
        /\ ~decoded.raised
        /\ decoded.dict.nodes = SubSeq(raw.nodes, 1, raw.num_nodes)
        /\ decoded.dict.edges = SubSeq(raw.edges, 1, raw.num_edges)
        /\ decoded.dict.vars_in_scope = SubSeq(raw.vars_in_scope, 1, raw.num_vars)
        /\ decoded.dict.args_in_scope = SubSeq(raw.args_in_scope, 1, raw.num_args)

\* a round trip that padded and cut every field: each counter is positive and
\* below capacity where capacity allows, and the raw tails were not sentinels
C1_Witness ==
    /\ decoded # None
    /\ WellFormed(cfg, raw)
    /\ raw.num_edges > NodesCap(cfg) /\ raw.num_edges < EdgesCap(cfg)
    /\ raw.num_vars = 1 /\ raw.num_args = 1 /\ VarsCap(cfg) > 1
    /\ raw.num_nodes = 1 /\ NodesCap(cfg) > 1
    /\ raw.nodes[NodesCap(cfg)] = 0
    /\ Len(decoded.dict.nodes) = 1 /\ Len(decoded.dict.starter) = 1

\* no entry of a marker column follows a sentinel unless it is a sentinel
Monotone(marks) ==
    \A i, j \in DOMAIN marks :
        (i < j /\ marks[i] = SENTINEL) => marks[j] = SENTINEL

\* field f of the observation, of capacity cap, against the raw field r with
\* counter num: the engine's entries below the counter, sentinels from it on
Padded(f, r, num, cap) ==
    /\ Len(f) = cap
    /\ \A i \in 1..cap : IF i > num THEN f[i] = SENTINEL ELSE f[i] = r[i]

\* the same for a field of tuples, whose marker is the first component
PaddedTuples(f, r, num, cap) ==
    /\ Len(f) = cap
    /\ \A i \in 1..cap : IF i > num THEN f[i][1] = SENTINEL ELSE f[i] = r[i]

\* C2: invariant I2 on every observation reset or step returns: in nodes,
\* starter, edges, vars_in_scope and args_in_scope every position from the
\* field's counter on holds the sentinel in its marker, every position below it
\* holds what the engine wrote, and no marker follows a sentinel marker unless
\* it is a sentinel too.
C2_SentinelPadding ==
    ret # None =>
        /\ Padded(ret.obs.nodes, raw.nodes, raw.num_nodes, NodesCap(cfg))
        /\ Padded(ret.obs.starter, raw.starter, raw.num_nodes, NodesCap(cfg))
        /\ PaddedTuples(ret.obs.edges, raw.edges, raw.num_edges, EdgesCap(cfg))
        /\ Padded(ret.obs.vars_in_scope, raw.vars_in_scope, raw.num_vars,
                  VarsCap(cfg))
        /\ PaddedTuples(ret.obs.args_in_scope, raw.args_in_scope, raw.num_args,
                        VarsCap(cfg))
        /\ Monotone(ret.obs.nodes) /\ Monotone(ret.obs.starter)
        /\ Monotone(FirstOf(ret.obs.edges)) /\ Monotone(ret.obs.vars_in_scope)
        /\ Monotone(FirstOf(ret.obs.args_in_scope))

\* a step returned an observation of a tree that fills part of every field,
\* after the engine left zeros, not sentinels, past the counters
C2_Witness ==
    /\ ret # None /\ ret.kind = "step"
    /\ raw.num_nodes = 1 /\ NodesCap(cfg) = 2 /\ raw.nodes[2] = 0
    /\ raw.num_edges = 3 /\ raw.edges[4] = <<0, 0, 0>>
    /\ raw.num_vars = 1 /\ raw.num_args = 1 /\ raw.vars_in_scope[2] = 0
    /\ ret.obs.nodes[2] = SENTINEL /\ ret.obs.edges[4] = <<SENTINEL, 0, 0>>

\* C3: terminal correctness. For every step, done is True exactly when the
\* reward is 1, and the reward is 0 or 1.
C3_TerminalCorrect ==
    (ret # None /\ ret.kind = "step") =>
        /\ ret.done <=> (ret.reward = 1)
        /\ ret.reward \in {0, 1}

\* a step returned reward 1 and done
C3_Witness == ret # None /\ ret.kind = "step" /\ ret.reward = 1 /\ ret.done

\* C4: once a step has returned done the environment is Terminal, and a step
\* called then is rejected: it applies no action to the engine state.
C4_NoStepWhenTerminal ==
    (last.op = "step" /\ last.before = "Terminal") => last.raised

\* C5: an observation that was returned earlier does not share a buffer with
\* the engine state: while the caller keeps it, within one episode, no step
\* changes the contents of its arrays.
C5_ObservationOwned ==
    [][(held = Viewing /\ held' = held)
        => ObsArrays(state') = ObsArrays(state)]_vars

\* C6: in every observation reset or step returns, permitted_actions has
\* exactly num_actions + 2 * max_num_vars entries, whatever the counters.
C6_MaskShape ==
    ret # None =>
        Len(ret.obs.permitted_actions) = cfg.num_actions + 2 * cfg.max_num_vars

\* a step returned the observation of a tree whose nodes run past capacity
\* while no variable is in scope
C6_Witness ==
    /\ ret # None /\ ret.kind = "step"
    /\ raw.num_nodes > NodesCap(cfg) /\ raw.num_vars = 0

\* C7: an environment is constructed, and its engine initialised, only with a
\* valid capacity schema.
C7_SchemaValidated == astclib # "unloaded" => ValidSchema(cfg)

\* a counter of the record is above the capacity of its field
Overflow(c, st) ==
    \/ st.num_nodes > c.max_num_nodes
    \/ st.num_edges > 3 * c.max_num_nodes
    \/ st.num_vars > c.max_num_vars
    \/ st.num_args > c.max_num_vars

\* C8: when the engine leaves a counter above its capacity, reset or step
\* fails with an error instead of returning an observation.
C8_OverflowReported ==
    (last.op \in {"reset", "step"} /\ raw # None /\ Overflow(cfg, raw))
        => last.raised

\* C9: close called on a new environment, before any reset, does not raise
\* and calls the engine's release operation.
C9_CloseWithoutReset ==
    (last.op = "close" /\ last.before = "Unborn") =>
        (~last.raised /\ astclib = "closed")

\* close has been called while state was still None
C9_Witness == last.op = "close" /\ last.before = "Unborn" /\ state = None

\* C10: get_state / pad_states leaves the engine's State record, arrays and
\* counters, exactly as the engine left it.
C10_EncoderPure == ret # None => state = raw

\* no component of any entry of a field of tuples is the sentinel
NoSentinelTuples(f) == \A i \in DOMAIN f : \A j \in DOMAIN f[i] : f[i][j] # SENTINEL
\* no entry of a plain field is the sentinel
NoSentinel(f) == \A i \in DOMAIN f : f[i] # SENTINEL

\* C11: full-capacity fields. When the counter of a field equals the field's
\* capacity and its entries are not the sentinel, the encoded field contains no
\* sentinel, and unpad_states returns it at full length with every entry as
\* the engine wrote it, without raising. This holds field by field, whatever
\* the other counters are.
C11_FullCapacity ==
    decoded # None =>
        /\ (raw.num_nodes = NodesCap(cfg) /\ NoSentinel(raw.nodes)
                /\ NoSentinel(raw.starter)) =>
              /\ NoSentinel(ret.obs.nodes) /\ NoSentinel(ret.obs.starter)
              /\ ~decoded.raised
              /\ decoded.dict.nodes = raw.nodes
              /\ decoded.dict.starter = raw.starter
        /\ (raw.num_edges = EdgesCap(cfg) /\ NoSentinelTuples(raw.edges)) =>
              /\ NoSentinelTuples(ret.obs.edges)
              /\ ~decoded.raised
              /\ decoded.dict.edges = raw.edges
        /\ (raw.num_vars = VarsCap(cfg) /\ NoSentinel(raw.vars_in_scope)) =>
              /\ NoSentinel(ret.obs.vars_in_scope)
              /\ ~decoded.raised
              /\ decoded.dict.vars_in_scope = raw.vars_in_scope
        /\ (raw.num_args = VarsCap(cfg) /\ NoSentinelTuples(raw.args_in_scope)) =>
              /\ NoSentinelTuples(ret.obs.args_in_scope)
              /\ ~decoded.raised
              /\ decoded.dict.args_in_scope = raw.args_in_scope

\* a record with every field exactly at capacity was encoded and decoded, and
\* the decoded fields have the length of their capacity
C11_Witness ==
    /\ decoded # None
    /\ raw.num_nodes = NodesCap(cfg) /\ raw.num_edges = EdgesCap(cfg)
    /\ raw.num_vars = VarsCap(cfg) /\ raw.num_args = VarsCap(cfg)
    /\ NoSentinel(raw.nodes) /\ NoSentinelTuples(raw.edges)
    /\ Len(decoded.dict.nodes) = NodesCap(cfg)
    /\ Len(decoded.dict.edges) = EdgesCap(cfg)
    /\ Len(decoded.dict.args_in_scope) = VarsCap(cfg)

\* C12: reset is accepted in every state before close, Unborn, Terminal or
\* Ready with the episode unfinished: it does not raise, it installs a state
\* the engine has just loaded for the sampled assignment and code, encoded, and
\* it leaves the environment Ready; a step called when Ready is accepted.
C12_ResetAnywhere ==
    /\ last.op = "reset" =>
          /\ last.before \in {"Unborn", "Terminal", "Ready"}
          /\ ~last.raised
          /\ Phase = "Ready"
          /\ raw \in load_assignment(cfg, raw.assignment, raw.code)
          /\ state = WriteThrough(raw, GetState(cfg, raw))
          /\ ret = [kind |-> "reset", obs |-> GetState(cfg, raw),
                    reward |-> 0, done |-> FALSE]
    /\ (last.op = "step" /\ last.before = "Ready") =>
          (~last.raised /\ ret.kind = "step")

\* a reset has been called in Terminal, after a step that returned done
C12_Witness == last.op = "reset" /\ last.before = "Terminal" /\ Phase = "Ready"

\* a reset has been called in Ready, abandoning an episode that was not done
C12_WitnessMidway == last.op = "reset" /\ last.before = "Ready" /\ state # None

\* C13: a step called before any reset, while the environment is Unborn, is
\* rejected with an error: the engine is not called, so there is still no
\* State record, no record left by the engine and nothing returned.
C13_StepNeedsReset ==
    (last.op = "step" /\ last.before = "Unborn") =>
        (last.raised /\ state = None /\ raw = None /\ ret = None)

\* step has been called on a constructed environment before any reset
C13_Witness ==
    last.op = "step" /\ last.before = "Unborn" /\ last.raised /\ astclib = "ready"

SameView(h, before, after) ==
    h.ref = "state" => ObsArrays(after) = ObsArrays(before)

C14_PadIdempotent ==
    (ret # None /\ ret.kind = "get_state_again") =>
        /\ ret.obs = ret.prev
        /\ state = WriteThrough(raw, ret.prev)

\* get_state was called twice on a record whose tails the engine left at
\* zero, and the first call had put sentinels there
C14_Witness ==
    /\ ret # None /\ ret.kind = "get_state_again"
    /\ raw.num_nodes < NodesCap(cfg) /\ raw.nodes[NodesCap(cfg)] = 0
    /\ raw.num_edges < EdgesCap(cfg) /\ raw.edges[EdgesCap(cfg)][1] = 0
    /\ ret.prev.nodes[NodesCap(cfg)] = SENTINEL
    /\ ret.prev.edges[EdgesCap(cfg)][1] = SENTINEL

\* the field f with its first sentinel moved to position p + 1
Moved(f, p) ==
    [i \in DOMAIN f |->
        IF i > p THEN SENTINEL ELSE IF f[i] = SENTINEL THEN 0 ELSE f[i]]
\* the same for a field of tuples, on the marker component
MovedTuples(f, p) ==
    [i \in DOMAIN f |->
        [f[i] EXCEPT ![1] = IF i > p THEN SENTINEL
                            ELSE IF @ = SENTINEL THEN 0 ELSE @]]

\* C16: decoder field independence. Take the observation that was decoded and
\* move the first sentinel of one field, nodes, edges, vars_in_scope or
\* args_in_scope, to any position: that field (and starter with nodes) is cut
\* at the new position, and every other field decodes to what it decoded to
\* before, in length and in content.
C16_FieldIndependence ==
    (decoded # None /\ decoded.again = None) =>
        LET o == ret.obs
            was == decoded.dict
        IN  /\ \A p \in 0..NodesCap(cfg) :
                 LET n == UnpadStates(cfg, [o EXCEPT !.nodes = Moved(@, p)]).dict
                 IN  /\ Len(n.nodes) = p /\ Len(n.starter) = p
                     /\ n.edges = was.edges
                     /\ n.vars_in_scope = was.vars_in_scope
                     /\ n.args_in_scope = was.args_in_scope
            /\ \A p \in 0..EdgesCap(cfg) :
                 LET e == UnpadStates(cfg,
                             [o EXCEPT !.edges = MovedTuples(@, p)]).dict
                 IN  /\ Len(e.edges) = p
                     /\ e.nodes = was.nodes /\ e.starter = was.starter
                     /\ e.vars_in_scope = was.vars_in_scope
                     /\ e.args_in_scope = was.args_in_scope
            /\ \A p \in 0..VarsCap(cfg) :
                 LET v == UnpadStates(cfg,
                             [o EXCEPT !.vars_in_scope = Moved(@, p)]).dict
                     a == UnpadStates(cfg,
                             [o EXCEPT !.args_in_scope = MovedTuples(@, p)]).dict
                 IN  /\ Len(v.vars_in_scope) = p
                     /\ v.nodes = was.nodes /\ v.starter = was.starter
                     /\ v.edges = was.edges
                     /\ v.args_in_scope = was.args_in_scope
                     /\ Len(a.args_in_scope) = p
                     /\ a.nodes = was.nodes /\ a.starter = was.starter
                     /\ a.edges = was.edges
                     /\ a.vars_in_scope = was.vars_in_scope

\* an observation was decoded whose fields end at different positions: nodes
\* after one entry, edges after two, vars_in_scope full, args_in_scope empty
C16_Witness ==
    /\ decoded # None /\ ~decoded.raised
    /\ Len(decoded.dict.nodes) = 1
    /\ Len(decoded.dict.edges) = 2
    /\ Len(decoded.dict.vars_in_scope) = 2
    /\ Len(decoded.dict.args_in_scope) = 0

\* some array that unpad_states scans is shorter than the capacity of its field
Short(c, d) ==
    \/ Len(d.nodes) < c.max_num_nodes
    \/ Len(d.edges) < c.max_num_nodes * 3
    \/ Len(d.vars_in_scope) < c.max_num_vars
    \/ Len(d.args_in_scope) < c.max_num_vars

\* C18 as stated: unpad_states applied to a record it has already decoded
\* returns the record unchanged and does not raise.
C18_UnpadIdempotent ==
    (decoded # None /\ decoded.again # None) =>
        (~decoded.again.raised /\ decoded.again.dict = decoded.dict)

\* C18, amended: unpad_states applied to a record it has already decoded
\* leaves the record unchanged; it returns only when no array it scans is
\* shorter than its capacity, and raises IndexError when one is.
C18_UnpadAgain ==
    (decoded # None /\ decoded.again # None) =>
        /\ decoded.again.dict = decoded.dict
        /\ decoded.again.raised <=> Short(cfg, decoded.dict)

\* the second call went through nodes, which was at full capacity, and raised
\* on edges, which the first call had cut
C18_Witness ==
    /\ decoded # None /\ decoded.again # None
    /\ decoded.again.raised
    /\ Len(decoded.dict.nodes) = NodesCap(cfg)
    /\ Len(decoded.dict.edges) < EdgesCap(cfg)

\* the second call returned: every field was at full capacity
C18_WitnessFull ==
    /\ decoded # None /\ decoded.again # None
    /\ ~decoded.again.raised
    /\ Len(decoded.dict.edges) = EdgesCap(cfg)

\* C19: the dict unflatten_input returns has, for every observation key, a
\* list with exactly one entry per row of the batch of that call; entries of
\* earlier calls are not in it.
C19_OneEntryPerRow ==
    (policy # None /\ policy.calls > 0) =>
        \A key \in ObsKeys : Len(policy.input_dict[key]) = policy.rows

====
